---- MODULE Spec2Model ----
(***************************************************************************)
(* Token factory registry (contracts/token-factory): the configuration     *)
(* state machine of lib.rs, the burn engine of burn.rs and the storage     *)
(* layer of storage.rs.  Every handler is a function from (store, inputs)  *)
(* to an outcome <store, log, result>; an action applies one handler to    *)
(* the current store and commits the outcome.                              *)
(***************************************************************************)
EXTENDS Integers, Sequences, FiniteSets, TLC

\* ------------------------------------------------------------------------
\*  Bounds of the model
\* ------------------------------------------------------------------------

\* i128 is scaled to a signed integer of IntBits bits, wide enough for the
\* total of a batch of MAX_BATCH_BURN entries
IntBits == 8

\* largest fee value offered to initialize / update_fees / batch_update_admin
MaxFee == 1

\* largest initial supply of an issued token
MaxSupply == 2

\* longest enumerated batch_burn entry list
MaxBatchLen == 2

\* number of token indices that can be issued
\* burns followed on one token when the amounts are at the integer bounds
MaxBurns == 3
MaxTokens == 2

\* ------------------------------------------------------------------------
\*  Values
\* ------------------------------------------------------------------------

I128_MAX == 2 ^ (IntBits - 1) - 1
I128_MIN == 0 - 2 ^ (IntBits - 1)

\* Option<T>: None or Some(x)
None == << >>
Some(x) == << x >>
is_none(o) == o = None
is_some(o) == o # None
unwrap(o) == o[1]
unwrap_or(o, d) == IF o = None THEN d ELSE o[1]

\* account addresses (admin, treasury, creators, holders, callers)
Addresses == {"A1", "A2"}

\* sequential token indices and the contract address of each issued token
TokenIndices == 0 .. (MaxTokens - 1)
TokenAddress(i) == <<"T", i>>
TokenAddresses == {TokenAddress(i) : i \in TokenIndices}

\* i128::checked_sub / checked_add on the scaled width
checked_sub(a, b) ==
    IF a - b < I128_MIN \/ a - b > I128_MAX THEN None ELSE Some(a - b)

checked_add(a, b) ==
    IF a + b < I128_MIN \/ a + b > I128_MAX THEN None ELSE Some(a + b)

\* ------------------------------------------------------------------------
\*  State: the contract storage, the log of the last call and its result
\* ------------------------------------------------------------------------

VARIABLES
    admin,              \* DataKey::Admin        (Option<Address>)
    treasury,           \* DataKey::Treasury     (Option<Address>)
    base_fee,           \* DataKey::BaseFee      (Option<i128>)
    metadata_fee,       \* DataKey::MetadataFee  (Option<i128>)
    paused,             \* DataKey::Paused       (Option<bool>)
    token_count,        \* DataKey::TokenCount
    tokens,             \* DataKey::Token(u32)              -> Option<TokenInfo>
    tokens_by_address,  \* DataKey::TokenByAddress(Address) -> Option<TokenInfo>
    balances,           \* DataKey::Balance(u32, Address)   -> Option<i128>
    burn_counts,        \* DataKey::BurnCount(u32)          -> Option<u32>
    log,                \* storage writes and events of the last call, in order
    call                \* the last call: operation, inputs and result

vars == << admin, treasury, base_fee, metadata_fee, paused, token_count,
           tokens, tokens_by_address, balances, burn_counts, log, call >>

\* the storage as one value
Store ==
    [ admin |-> admin, treasury |-> treasury, base_fee |-> base_fee,
      metadata_fee |-> metadata_fee, paused |-> paused,
      token_count |-> token_count, tokens |-> tokens,
      tokens_by_address |-> tokens_by_address, balances |-> balances,
      burn_counts |-> burn_counts ]

\* the storage of a freshly registered contract: every key absent
EmptyStore ==
    [ admin |-> None, treasury |-> None, base_fee |-> None,
      metadata_fee |-> None, paused |-> None, token_count |-> None,
      tokens |-> [i \in TokenIndices |-> None],
      tokens_by_address |-> [a \in TokenAddresses |-> None],
      balances |-> [k \in TokenIndices \X Addresses |-> None],
      burn_counts |-> [i \in TokenIndices |-> None] ]

\* ------------------------------------------------------------------------
\*  Outcome of a handler: store so far, effects so far, result
\* ------------------------------------------------------------------------

Begin(s) == [ s |-> s, log |-> << >>, result |-> "Running" ]
Ok(o) == [ o EXCEPT !.result = "Ok" ]
Err(o, e) == [ o EXCEPT !.result = e ]
\* a Rust panic (unwrap on an absent key): the invocation traps
Panic(o) == [ o EXCEPT !.result = "Panic" ]
publish(o, topic) == [ o EXCEPT !.log = Append(@, <<"event", topic>>) ]
Wrote(o, key) == [ o EXCEPT !.log = Append(@, <<"set", key>>) ]

\* ------------------------------------------------------------------------
\*  events.rs
\* ------------------------------------------------------------------------

emit_initialized(o) == publish(o, "init")
emit_token_registered(o) == publish(o, "tok_reg")
emit_admin_transfer(o) == publish(o, "adm_xfer")
emit_pause(o) == publish(o, "pause")
emit_unpause(o) == publish(o, "unpause")
emit_fees_updated(o) == publish(o, "fee_upd")
emit_clawback_toggled(o) == publish(o, "clawback")

\* ------------------------------------------------------------------------
\*  storage.rs
\* ------------------------------------------------------------------------

has_admin(s) == is_some(s.admin)
get_admin(s) == unwrap(s.admin)
set_admin(o, a) == Wrote([ o EXCEPT !.s.admin = Some(a) ], "Admin")
get_treasury(s) == unwrap(s.treasury)
set_treasury(o, t) == Wrote([ o EXCEPT !.s.treasury = Some(t) ], "Treasury")
get_base_fee(s) == unwrap(s.base_fee)
set_base_fee(o, fee) == Wrote([ o EXCEPT !.s.base_fee = Some(fee) ], "BaseFee")
get_metadata_fee(s) == unwrap(s.metadata_fee)
set_metadata_fee(o, fee) ==
    Wrote([ o EXCEPT !.s.metadata_fee = Some(fee) ], "MetadataFee")
is_paused(s) == unwrap_or(s.paused, FALSE)
set_paused(o, p) == Wrote([ o EXCEPT !.s.paused = Some(p) ], "Paused")
get_token_count(s) == unwrap_or(s.token_count, 0)
\* FactoryState read back from the five configuration keys
get_factory_state(s) ==
    [ admin |-> get_admin(s), treasury |-> get_treasury(s),
      base_fee |-> get_base_fee(s), metadata_fee |-> get_metadata_fee(s),
      paused |-> is_paused(s) ]
get_token_info(s, index) ==
    IF index \in TokenIndices THEN s.tokens[index] ELSE None
get_token_info_by_address(s, addr) ==
    IF addr \in TokenAddresses THEN s.tokens_by_address[addr] ELSE None

\* Token(index) is written and a tok_reg event is published
set_token_info(o, index, info) ==
    emit_token_registered(
        Wrote([ o EXCEPT !.s.tokens[index] = Some(info) ], "Token"))
set_token_info_by_address(o, addr, info) ==
    Wrote([ o EXCEPT !.s.tokens_by_address[addr] = Some(info) ],
          "TokenByAddress")
get_balance(s, index, holder) ==
    IF <<index, holder>> \in DOMAIN s.balances
    THEN unwrap_or(s.balances[<<index, holder>>], 0) ELSE 0
\* set_balance storing the holder's balance under every token index
set_balance_every_token(o, index, holder, balance) ==
    Wrote([ o EXCEPT !.s.balances =
               [ k \in DOMAIN @ |->
                   IF k[2] = holder THEN Some(balance) ELSE @[k] ] ],
          "Balance")

set_balance(o, index, holder, balance) ==
    Wrote([ o EXCEPT !.s.balances[<<index, holder>>] = Some(balance) ],
          "Balance")
get_burn_count(s, index) ==
    IF index \in TokenIndices THEN unwrap_or(s.burn_counts[index], 0) ELSE 0
\* increment_burn_count with the sign of the step flipped
increment_burn_count_down(o, index) ==
    Wrote([ o EXCEPT !.s.burn_counts[index] =
                        Some(get_burn_count(o.s, index) - 1) ],
          "BurnCount")

increment_burn_count(o, index) ==
    Wrote([ o EXCEPT !.s.burn_counts[index] =
                        Some(get_burn_count(o.s, index) + 1) ],
          "BurnCount")

\* ------------------------------------------------------------------------
\*  validation.rs
\* ------------------------------------------------------------------------

\* the error of validate_admin, "Ok" when the check passes
validate_admin(s) == IF ~has_admin(s) THEN "MissingAdmin" ELSE "Ok"

\* the error of validate_fees; get_base_fee / get_metadata_fee unwrap
validate_fees(s) ==
    IF is_none(s.base_fee) THEN "Panic"
    ELSE IF get_base_fee(s) < 0 THEN "InvalidBaseFee"
    ELSE IF is_none(s.metadata_fee) THEN "Panic"
    ELSE IF get_metadata_fee(s) < 0 THEN "InvalidMetadataFee"
    ELSE "Ok"

\* the error of validate_treasury: the presence of the admin stands in for
\* the presence of the treasury, and get_treasury unwraps
validate_treasury(s) ==
    IF ~has_admin(s) THEN "MissingTreasury"
    ELSE IF is_none(s.treasury) THEN "Panic"
    ELSE "Ok"

\* the error of validate_token_count: the indices below token_count that
\* hold a record are counted and compared with token_count
validate_token_count(s) ==
    LET count == get_token_count(s)
        actual_count ==
            Cardinality({ i \in 0 .. (count - 1) :
                             is_some(get_token_info(s, i)) })
    IN  IF actual_count # count THEN "InconsistentTokenCount" ELSE "Ok"

\* validate_state running the fee check ahead of the admin check
validate_state_fees_first(s) ==
    IF is_some(s.base_fee) /\ is_some(s.metadata_fee)
          /\ validate_fees(s) # "Ok" THEN validate_fees(s)
    ELSE IF validate_admin(s) # "Ok" THEN validate_admin(s)
    ELSE IF validate_treasury(s) # "Ok" THEN validate_treasury(s)
    ELSE IF validate_fees(s) # "Ok" THEN validate_fees(s)
    ELSE validate_token_count(s)

\* the first error of the four checks, in their order
validate_state(s) ==
    IF validate_admin(s) # "Ok" THEN validate_admin(s)
    ELSE IF validate_treasury(s) # "Ok" THEN validate_treasury(s)
    ELSE IF validate_fees(s) # "Ok" THEN validate_fees(s)
    ELSE validate_token_count(s)

\* ------------------------------------------------------------------------
\*  lib.rs: configuration handlers
\* ------------------------------------------------------------------------

\* initialize validating the fees before the initialization guard
initialize_validate_first(s, new_admin, new_treasury, bf, mf) ==
    LET o0 == Begin(s) IN
    IF bf < 0 \/ mf < 0 THEN Err(o0, "InvalidParameters")
    ELSE IF has_admin(s) THEN Err(o0, "AlreadyInitialized")
    ELSE Ok(emit_initialized(
            set_metadata_fee(
                set_base_fee(
                    set_treasury(set_admin(o0, new_admin), new_treasury),
                    bf),
                mf)))

\* initialize storing the two fees in each other's key
initialize_fees_swapped(s, new_admin, new_treasury, bf, mf) ==
    LET o0 == Begin(s) IN
    IF has_admin(s) THEN Err(o0, "AlreadyInitialized")
    ELSE IF bf < 0 \/ mf < 0 THEN Err(o0, "InvalidParameters")
    ELSE Ok(emit_initialized(
            set_metadata_fee(
                set_base_fee(
                    set_treasury(set_admin(o0, new_admin), new_treasury),
                    mf),
                bf)))

initialize(s, new_admin, new_treasury, bf, mf) ==
    LET o0 == Begin(s) IN
    IF has_admin(s) THEN Err(o0, "AlreadyInitialized")
    ELSE IF bf < 0 \/ mf < 0 THEN Err(o0, "InvalidParameters")
    ELSE Ok(emit_initialized(
            set_metadata_fee(
                set_base_fee(
                    set_treasury(set_admin(o0, new_admin), new_treasury),
                    bf),
                mf)))

get_state(s) == get_factory_state(s)

\* transfer_admin announcing the transfer without storing the new admin
transfer_admin_keeps_admin(s, current_admin, new_admin) ==
    LET o0 == Begin(s) IN
    IF ~has_admin(s) THEN Panic(o0)
    ELSE IF current_admin # get_admin(s) THEN Err(o0, "Unauthorized")
    ELSE IF new_admin = current_admin THEN Err(o0, "InvalidParameters")
    ELSE Ok(emit_admin_transfer(o0))

\* transfer_admin without the check that the new admin differs
transfer_admin_allow_self(s, current_admin, new_admin) ==
    LET o0 == Begin(s) IN
    IF ~has_admin(s) THEN Panic(o0)
    ELSE IF current_admin # get_admin(s) THEN Err(o0, "Unauthorized")
    ELSE LET o1 == set_admin(o0, new_admin) IN
         IF validate_admin(o1.s) # "Ok" THEN Err(o1, validate_admin(o1.s))
         ELSE Ok(emit_admin_transfer(o1))

\* transfer_admin handing the treasury to the new admin as well
transfer_admin_moves_treasury(s, current_admin, new_admin) ==
    LET o0 == Begin(s) IN
    IF ~has_admin(s) THEN Panic(o0)
    ELSE IF current_admin # get_admin(s) THEN Err(o0, "Unauthorized")
    ELSE IF new_admin = current_admin THEN Err(o0, "InvalidParameters")
    ELSE LET o1 == set_treasury(set_admin(o0, new_admin), new_admin) IN
         IF validate_admin(o1.s) # "Ok" THEN Err(o1, validate_admin(o1.s))
         ELSE Ok(emit_admin_transfer(o1))

transfer_admin(s, current_admin, new_admin) ==
    LET o0 == Begin(s) IN
    IF ~has_admin(s) THEN Panic(o0)
    ELSE IF current_admin # get_admin(s) THEN Err(o0, "Unauthorized")
    ELSE IF new_admin = current_admin THEN Err(o0, "InvalidParameters")
    ELSE LET o1 == set_admin(o0, new_admin) IN
         IF validate_admin(o1.s) # "Ok" THEN Err(o1, validate_admin(o1.s))
         ELSE Ok(emit_admin_transfer(o1))

\* pause treating an absent admin as nobody to check against
pause_missing_admin_ok(s, caller) ==
    LET o0 == Begin(s) IN
    IF has_admin(s) /\ caller # get_admin(s) THEN Err(o0, "Unauthorized")
    ELSE Ok(emit_pause(set_paused(o0, TRUE)))

pause(s, caller) ==
    LET o0 == Begin(s) IN
    IF ~has_admin(s) THEN Panic(o0)
    ELSE IF caller # get_admin(s) THEN Err(o0, "Unauthorized")
    ELSE Ok(emit_pause(set_paused(o0, TRUE)))

unpause(s, caller) ==
    LET o0 == Begin(s) IN
    IF ~has_admin(s) THEN Panic(o0)
    ELSE IF caller # get_admin(s) THEN Err(o0, "Unauthorized")
    ELSE Ok(emit_unpause(set_paused(o0, FALSE)))

\* update_fees refusing to run while the registry is paused
update_fees_pause_gated(s, caller, bf, mf) ==
    LET o0 == Begin(s) IN
    IF ~has_admin(s) THEN Panic(o0)
    ELSE IF caller # get_admin(s) THEN Err(o0, "Unauthorized")
    ELSE IF is_paused(s) THEN Err(o0, "ContractPaused")
    ELSE IF is_none(bf) /\ is_none(mf) THEN Err(o0, "InvalidParameters")
    ELSE IF is_some(bf) /\ unwrap(bf) < 0 THEN Err(o0, "InvalidParameters")
    ELSE LET o1 == IF is_some(bf) THEN set_base_fee(o0, unwrap(bf)) ELSE o0 IN
         IF is_some(mf) /\ unwrap(mf) < 0 THEN Err(o1, "InvalidParameters")
         ELSE LET o2 == IF is_some(mf)
                        THEN set_metadata_fee(o1, unwrap(mf)) ELSE o1 IN
              IF validate_fees(o2.s) # "Ok" THEN Err(o2, validate_fees(o2.s))
              ELSE Ok(emit_fees_updated(o2))

\* update_fees storing the default fee 0 for a fee that is not supplied
update_fees_writes_both(s, caller, bf, mf) ==
    LET o0 == Begin(s) IN
    IF ~has_admin(s) THEN Panic(o0)
    ELSE IF caller # get_admin(s) THEN Err(o0, "Unauthorized")
    ELSE IF is_none(bf) /\ is_none(mf) THEN Err(o0, "InvalidParameters")
    ELSE IF is_some(bf) /\ unwrap(bf) < 0 THEN Err(o0, "InvalidParameters")
    ELSE LET o1 == set_base_fee(o0, unwrap_or(bf, 0)) IN
         IF is_some(mf) /\ unwrap(mf) < 0 THEN Err(o1, "InvalidParameters")
         ELSE LET o2 == set_metadata_fee(o1, unwrap_or(mf, 0)) IN
              IF validate_fees(o2.s) # "Ok" THEN Err(o2, validate_fees(o2.s))
              ELSE Ok(emit_fees_updated(o2))

\* update_fees rejecting an empty update before it checks the caller
update_fees_validate_first(s, caller, bf, mf) ==
    LET o0 == Begin(s) IN
    IF ~has_admin(s) THEN Panic(o0)
    ELSE IF is_none(bf) /\ is_none(mf) THEN Err(o0, "InvalidParameters")
    ELSE IF caller # get_admin(s) THEN Err(o0, "Unauthorized")
    ELSE IF is_some(bf) /\ unwrap(bf) < 0 THEN Err(o0, "InvalidParameters")
    ELSE LET o1 == IF is_some(bf) THEN set_base_fee(o0, unwrap(bf)) ELSE o0 IN
         IF is_some(mf) /\ unwrap(mf) < 0 THEN Err(o1, "InvalidParameters")
         ELSE LET o2 == IF is_some(mf)
                        THEN set_metadata_fee(o1, unwrap(mf)) ELSE o1 IN
              IF validate_fees(o2.s) # "Ok" THEN Err(o2, validate_fees(o2.s))
              ELSE Ok(emit_fees_updated(o2))

\* update_fees leaving the sign of metadata_fee to the validate_fees call
\* that follows the writes
update_fees_unchecked_metadata(s, caller, bf, mf) ==
    LET o0 == Begin(s) IN
    IF ~has_admin(s) THEN Panic(o0)
    ELSE IF caller # get_admin(s) THEN Err(o0, "Unauthorized")
    ELSE IF is_none(bf) /\ is_none(mf) THEN Err(o0, "InvalidParameters")
    ELSE IF is_some(bf) /\ unwrap(bf) < 0 THEN Err(o0, "InvalidParameters")
    ELSE LET o1 == IF is_some(bf) THEN set_base_fee(o0, unwrap(bf)) ELSE o0
             o2 == IF is_some(mf) THEN set_metadata_fee(o1, unwrap(mf)) ELSE o1
         IN  IF validate_fees(o2.s) # "Ok" THEN Err(o2, validate_fees(o2.s))
             ELSE Ok(emit_fees_updated(o2))

update_fees(s, caller, bf, mf) ==
    LET o0 == Begin(s) IN
    IF ~has_admin(s) THEN Panic(o0)
    ELSE IF caller # get_admin(s) THEN Err(o0, "Unauthorized")
    ELSE IF is_none(bf) /\ is_none(mf) THEN Err(o0, "InvalidParameters")
    ELSE IF is_some(bf) /\ unwrap(bf) < 0 THEN Err(o0, "InvalidParameters")
    ELSE LET o1 == IF is_some(bf) THEN set_base_fee(o0, unwrap(bf)) ELSE o0 IN
         IF is_some(mf) /\ unwrap(mf) < 0 THEN Err(o1, "InvalidParameters")
         ELSE LET o2 == IF is_some(mf)
                        THEN set_metadata_fee(o1, unwrap(mf)) ELSE o1 IN
              IF validate_fees(o2.s) # "Ok" THEN Err(o2, validate_fees(o2.s))
              ELSE Ok(emit_fees_updated(o2))

\* batch_update_admin checking and writing one field after the other
batch_update_admin_interleaved(s, caller, bf, mf, p) ==
    LET o0 == Begin(s) IN
    IF ~has_admin(s) THEN Panic(o0)
    ELSE IF caller # get_admin(s) THEN Err(o0, "Unauthorized")
    ELSE IF is_none(bf) /\ is_none(mf) /\ is_none(p)
         THEN Err(o0, "InvalidParameters")
    ELSE LET o1 == IF is_some(p) THEN set_paused(o0, unwrap(p)) ELSE o0 IN
         IF is_some(bf) /\ unwrap(bf) < 0 THEN Err(o1, "InvalidParameters")
         ELSE LET o2 == IF is_some(bf)
                        THEN set_base_fee(o1, unwrap(bf)) ELSE o1 IN
              IF is_some(mf) /\ unwrap(mf) < 0
              THEN Err(o2, "InvalidParameters")
              ELSE LET o3 == IF is_some(mf)
                             THEN set_metadata_fee(o2, unwrap(mf)) ELSE o2 IN
                   IF validate_fees(o3.s) # "Ok"
                   THEN Err(o3, validate_fees(o3.s))
                   ELSE Ok(emit_fees_updated(o3))

\* batch_update_admin pausing the registry whenever a pause flag is given
batch_update_admin_always_pauses(s, caller, bf, mf, p) ==
    LET o0 == Begin(s) IN
    IF ~has_admin(s) THEN Panic(o0)
    ELSE IF caller # get_admin(s) THEN Err(o0, "Unauthorized")
    ELSE IF is_none(bf) /\ is_none(mf) /\ is_none(p)
         THEN Err(o0, "InvalidParameters")
    ELSE IF is_some(bf) /\ unwrap(bf) < 0 THEN Err(o0, "InvalidParameters")
    ELSE IF is_some(mf) /\ unwrap(mf) < 0 THEN Err(o0, "InvalidParameters")
    ELSE LET o1 == IF is_some(bf) THEN set_base_fee(o0, unwrap(bf)) ELSE o0
             o2 == IF is_some(mf) THEN set_metadata_fee(o1, unwrap(mf)) ELSE o1
             o3 == IF is_some(p) THEN set_paused(o2, TRUE) ELSE o2
         IN  IF validate_fees(o3.s) # "Ok" THEN Err(o3, validate_fees(o3.s))
             ELSE Ok(emit_fees_updated(o3))

batch_update_admin(s, caller, bf, mf, p) ==
    LET o0 == Begin(s) IN
    IF ~has_admin(s) THEN Panic(o0)
    ELSE IF caller # get_admin(s) THEN Err(o0, "Unauthorized")
    ELSE IF is_none(bf) /\ is_none(mf) /\ is_none(p)
         THEN Err(o0, "InvalidParameters")
    ELSE IF is_some(bf) /\ unwrap(bf) < 0 THEN Err(o0, "InvalidParameters")
    ELSE IF is_some(mf) /\ unwrap(mf) < 0 THEN Err(o0, "InvalidParameters")
    ELSE LET o1 == IF is_some(bf) THEN set_base_fee(o0, unwrap(bf)) ELSE o0
             o2 == IF is_some(mf) THEN set_metadata_fee(o1, unwrap(mf)) ELSE o1
             o3 == IF is_some(p) THEN set_paused(o2, unwrap(p)) ELSE o2
         IN  IF validate_fees(o3.s) # "Ok" THEN Err(o3, validate_fees(o3.s))
             ELSE Ok(emit_fees_updated(o3))

\* ------------------------------------------------------------------------
\*  lib.rs: token registry
\* ------------------------------------------------------------------------

\* set_clawback without the comparison of the caller with the creator
set_clawback_any_caller(s, token_address, caller, enabled) ==
    LET o0 == Begin(s)
        found == get_token_info_by_address(s, token_address)
    IN
    IF is_paused(s) THEN Err(o0, "ContractPaused")
    ELSE IF is_none(found) THEN Err(o0, "TokenNotFound")
    ELSE Ok(emit_clawback_toggled(
            set_token_info_by_address(o0, token_address,
                [ unwrap(found) EXCEPT !.clawback_enabled = enabled ])))

\* set_clawback looking the token up before it checks the pause flag
set_clawback_lookup_first(s, token_address, caller, enabled) ==
    LET o0 == Begin(s)
        found == get_token_info_by_address(s, token_address)
    IN
    IF is_none(found) THEN Err(o0, "TokenNotFound")
    ELSE IF is_paused(s) THEN Err(o0, "ContractPaused")
    ELSE IF unwrap(found).creator # caller THEN Err(o0, "Unauthorized")
    ELSE Ok(emit_clawback_toggled(
            set_token_info_by_address(o0, token_address,
                [ unwrap(found) EXCEPT !.clawback_enabled = enabled ])))

set_clawback(s, token_address, caller, enabled) ==
    LET o0 == Begin(s)
        found == get_token_info_by_address(s, token_address)
    IN
    IF is_paused(s) THEN Err(o0, "ContractPaused")
    ELSE IF is_none(found) THEN Err(o0, "TokenNotFound")
    ELSE IF unwrap(found).creator # caller THEN Err(o0, "Unauthorized")
    ELSE Ok(emit_clawback_toggled(
            set_token_info_by_address(o0, token_address,
                [ unwrap(found) EXCEPT !.clawback_enabled = enabled ])))

\* Token issuance.  The registry has no issuance handler of its own: the
\* record, its two lookup keys and the holders' balances are supplied by the
\* deployment collaborator, which charges the stored base fee and mints the
\* issued amount (dist: holder -> amount, summing to initial_supply); a
\* holder who receives nothing gets no balance entry.
create_token(s, creator, initial_supply, dist) ==
    LET o0 == Begin(s)
        index == get_token_count(s)
        info == [ address |-> TokenAddress(index), creator |-> creator,
                  name |-> "Test Token", symbol |-> "TST", decimals |-> 7,
                  total_supply |-> initial_supply,
                  initial_supply |-> initial_supply,
                  total_burned |-> 0, burn_count |-> 0,
                  metadata_uri |-> None, clawback_enabled |-> FALSE ]
        o1 == set_token_info_by_address(
                  set_token_info(o0, index, info), TokenAddress(index), info)
        o2 == Wrote([ o1 EXCEPT !.s.token_count = Some(index + 1) ],
                    "TokenCount")
        o3 == [ o2 EXCEPT !.s.balances =
                   [ k \in DOMAIN @ |->
                       IF k[1] = index /\ dist[k[2]] > 0
                       THEN Some(dist[k[2]]) ELSE @[k] ],
                !.log = Append(@, <<"set", "Balance">>) ]
    IN
    IF is_none(s.base_fee) THEN Panic(o0)
    ELSE IF is_paused(s) THEN Err(o0, "ContractPaused")
    ELSE IF initial_supply <= 0 THEN Err(o0, "InvalidParameters")
    ELSE Ok(publish(o3, "created"))

\* ------------------------------------------------------------------------
\*  burn.rs
\* ------------------------------------------------------------------------

MAX_BATCH_BURN == 100

validate_amount(amount) == IF amount <= 0 THEN "InvalidParameters" ELSE "Ok"

validate_address(addr) == "Ok"

emit_burn_event(o) == publish(o, "burn")
emit_admin_burn_event(o) == publish(o, "admin_burn")
emit_batch_burn_event(o) == publish(o, "batch_burn")

\* burn storing the lowered supply before it compares the balance with the
\* amount
burn_supply_before_check(s, caller, token_index, amount) ==
    LET o0 == Begin(s)
        found == get_token_info(s, token_index)
        balance == get_balance(s, token_index, caller)
        new_balance == checked_sub(balance, amount)
    IN
    IF validate_amount(amount) # "Ok" THEN Err(o0, validate_amount(amount))
    ELSE IF is_none(found) THEN Err(o0, "TokenNotFound")
    ELSE LET info == unwrap(found)
             new_supply == checked_sub(info.total_supply, amount)
         IN
         IF is_none(new_supply) THEN Err(o0, "ArithmeticError")
         ELSE LET o1 == set_token_info(o0, token_index,
                            [ info EXCEPT
                                !.total_supply = unwrap(new_supply) ])
              IN
              IF balance < amount THEN Err(o1, "InsufficientBalance")
              ELSE IF is_none(new_balance) THEN Err(o1, "ArithmeticError")
              ELSE Ok(emit_burn_event(
                      increment_burn_count(
                          set_balance(o1, token_index, caller,
                                      unwrap(new_balance)),
                          token_index)))

\* burn computing the new balance before it validates the amount
burn_subtract_first(s, caller, token_index, amount) ==
    LET o0 == Begin(s)
        found == get_token_info(s, token_index)
        balance == get_balance(s, token_index, caller)
        new_balance == checked_sub(balance, amount)
    IN
    IF is_none(new_balance) THEN Err(o0, "ArithmeticError")
    ELSE IF validate_amount(amount) # "Ok" THEN Err(o0, validate_amount(amount))
    ELSE IF is_none(found) THEN Err(o0, "TokenNotFound")
    ELSE IF balance < amount THEN Err(o0, "InsufficientBalance")
    ELSE LET info == unwrap(found)
             new_supply == checked_sub(info.total_supply, amount)
         IN
         IF is_none(new_supply) THEN Err(o0, "ArithmeticError")
         ELSE Ok(emit_burn_event(
                 increment_burn_count(
                     set_token_info(
                         set_balance(o0, token_index, caller,
                                     unwrap(new_balance)),
                         token_index,
                         [ info EXCEPT !.total_supply = unwrap(new_supply) ]),
                     token_index)))

\* burn without the comparison of the balance with the amount
burn_balance_unchecked(s, caller, token_index, amount) ==
    LET o0 == Begin(s)
        found == get_token_info(s, token_index)
        balance == get_balance(s, token_index, caller)
        new_balance == checked_sub(balance, amount)
    IN
    IF validate_amount(amount) # "Ok" THEN Err(o0, validate_amount(amount))
    ELSE IF is_none(found) THEN Err(o0, "TokenNotFound")
    ELSE IF is_none(new_balance) THEN Err(o0, "ArithmeticError")
    ELSE LET info == unwrap(found)
             new_supply == checked_sub(info.total_supply, amount)
         IN
         IF is_none(new_supply) THEN Err(o0, "ArithmeticError")
         ELSE Ok(emit_burn_event(
                 increment_burn_count(
                     set_token_info(
                         set_balance(o0, token_index, caller,
                                     unwrap(new_balance)),
                         token_index,
                         [ info EXCEPT !.total_supply = unwrap(new_supply) ]),
                     token_index)))

\* burn looking the token up before it validates the amount
burn_lookup_first(s, caller, token_index, amount) ==
    LET o0 == Begin(s)
        found == get_token_info(s, token_index)
        balance == get_balance(s, token_index, caller)
        new_balance == checked_sub(balance, amount)
    IN
    IF is_none(found) THEN Err(o0, "TokenNotFound")
    ELSE IF validate_amount(amount) # "Ok"
         THEN Err(o0, validate_amount(amount))
    ELSE IF balance < amount THEN Err(o0, "InsufficientBalance")
    ELSE IF is_none(new_balance) THEN Err(o0, "ArithmeticError")
    ELSE LET info == unwrap(found)
             new_supply == checked_sub(info.total_supply, amount)
         IN
         IF is_none(new_supply) THEN Err(o0, "ArithmeticError")
         ELSE Ok(emit_burn_event(
                 increment_burn_count(
                     set_token_info(
                         set_balance(o0, token_index, caller,
                                     unwrap(new_balance)),
                         token_index,
                         [ info EXCEPT !.total_supply = unwrap(new_supply) ]),
                     token_index)))

\* burn writing the balance but not the new total_supply
burn_supply_unchanged(s, caller, token_index, amount) ==
    LET o0 == Begin(s)
        found == get_token_info(s, token_index)
        balance == get_balance(s, token_index, caller)
        new_balance == checked_sub(balance, amount)
    IN
    IF validate_amount(amount) # "Ok" THEN Err(o0, validate_amount(amount))
    ELSE IF is_none(found) THEN Err(o0, "TokenNotFound")
    ELSE IF balance < amount THEN Err(o0, "InsufficientBalance")
    ELSE IF is_none(new_balance) THEN Err(o0, "ArithmeticError")
    ELSE Ok(emit_burn_event(
            increment_burn_count(
                set_token_info(
                    set_balance(o0, token_index, caller, unwrap(new_balance)),
                    token_index, unwrap(found)),
                token_index)))

burn(s, caller, token_index, amount) ==
    LET o0 == Begin(s)
        found == get_token_info(s, token_index)
        balance == get_balance(s, token_index, caller)
        new_balance == checked_sub(balance, amount)
    IN
    IF validate_amount(amount) # "Ok" THEN Err(o0, validate_amount(amount))
    ELSE IF is_none(found) THEN Err(o0, "TokenNotFound")
    ELSE IF balance < amount THEN Err(o0, "InsufficientBalance")
    ELSE IF is_none(new_balance) THEN Err(o0, "ArithmeticError")
    ELSE LET info == unwrap(found)
             new_supply == checked_sub(info.total_supply, amount)
         IN
         IF is_none(new_supply) THEN Err(o0, "ArithmeticError")
         ELSE Ok(emit_burn_event(
                 increment_burn_count(
                     set_token_info(
                         set_balance(o0, token_index, caller,
                                     unwrap(new_balance)),
                         token_index,
                         [ info EXCEPT !.total_supply = unwrap(new_supply) ]),
                     token_index)))

admin_burn(s, caller, token_index, holder, amount) ==
    LET o0 == Begin(s)
        found == get_token_info(s, token_index)
        balance == get_balance(s, token_index, holder)
        new_balance == checked_sub(balance, amount)
    IN
    IF ~has_admin(s) THEN Panic(o0)
    ELSE IF caller # get_admin(s) THEN Err(o0, "Unauthorized")
    ELSE IF validate_amount(amount) # "Ok"
         THEN Err(o0, validate_amount(amount))
    ELSE IF validate_address(holder) # "Ok"
         THEN Err(o0, validate_address(holder))
    ELSE IF is_none(found) THEN Err(o0, "TokenNotFound")
    ELSE IF balance < amount THEN Err(o0, "InsufficientBalance")
    ELSE IF is_none(new_balance) THEN Err(o0, "ArithmeticError")
    ELSE LET info == unwrap(found)
             new_supply == checked_sub(info.total_supply, amount)
         IN
         IF is_none(new_supply) THEN Err(o0, "ArithmeticError")
         ELSE Ok(emit_admin_burn_event(
                 increment_burn_count(
                     set_token_info(
                         set_balance(o0, token_index, holder,
                                     unwrap(new_balance)),
                         token_index,
                         [ info EXCEPT !.total_supply = unwrap(new_supply) ]),
                     token_index)))

\* pre-validation pass of batch_burn over entries lo..hi, run as the loop
\* over lo..mid followed by the loop over mid+1..hi:
\* [err |-> the first error or "Ok", total |-> the accumulated total_burn]
RECURSIVE batch_validate(_, _, _, _, _, _)
batch_validate(s, token_index, burns, lo, hi, total_burn) ==
    IF lo > hi THEN [ err |-> "Ok", total |-> total_burn ]
    ELSE IF lo = hi
    THEN LET holder == burns[lo][1]
             amount == burns[lo][2]
             sum == checked_add(total_burn, amount)
         IN
         IF validate_amount(amount) # "Ok"
         THEN [ err |-> validate_amount(amount), total |-> total_burn ]
         ELSE IF validate_address(holder) # "Ok"
         THEN [ err |-> validate_address(holder), total |-> total_burn ]
         ELSE IF get_balance(s, token_index, holder) < amount
         THEN [ err |-> "InsufficientBalance", total |-> total_burn ]
         ELSE IF is_none(sum)
         THEN [ err |-> "ArithmeticError", total |-> total_burn ]
         ELSE [ err |-> "Ok", total |-> unwrap(sum) ]
    ELSE LET mid == (lo + hi) \div 2
             first == batch_validate(s, token_index, burns, lo, mid,
                                     total_burn)
         IN
         IF first.err # "Ok" THEN first
         ELSE batch_validate(s, token_index, burns, mid + 1, hi, first.total)

\* mutation pass that refuses to store a balance below zero
RECURSIVE batch_mutate_nonnegative(_, _, _, _, _)
batch_mutate_nonnegative(o, token_index, burns, lo, hi) ==
    IF lo > hi THEN o
    ELSE IF lo = hi
    THEN LET holder == burns[lo][1]
             amount == burns[lo][2]
             new_balance ==
                 checked_sub(get_balance(o.s, token_index, holder), amount)
         IN
         IF is_none(new_balance) \/ unwrap(new_balance) < 0
         THEN Err(o, "ArithmeticError")
         ELSE set_balance(o, token_index, holder, unwrap(new_balance))
    ELSE LET mid == (lo + hi) \div 2
             first == batch_mutate_nonnegative(o, token_index, burns, lo, mid)
         IN
         IF first.result # "Running" THEN first
         ELSE batch_mutate_nonnegative(first, token_index, burns, mid + 1, hi)

\* mutation pass of batch_burn over entries lo..hi, run as the loop over
\* lo..mid followed by the loop over mid+1..hi; an arithmetic failure
\* returns with the balances written so far
RECURSIVE batch_mutate(_, _, _, _, _)
batch_mutate(o, token_index, burns, lo, hi) ==
    IF lo > hi THEN o
    ELSE IF lo = hi
    THEN LET holder == burns[lo][1]
             amount == burns[lo][2]
             new_balance ==
                 checked_sub(get_balance(o.s, token_index, holder), amount)
         IN
         IF is_none(new_balance) THEN Err(o, "ArithmeticError")
         ELSE set_balance(o, token_index, holder, unwrap(new_balance))
    ELSE LET mid == (lo + hi) \div 2
             first == batch_mutate(o, token_index, burns, lo, mid)
         IN
         IF first.result # "Running" THEN first
         ELSE batch_mutate(first, token_index, burns, mid + 1, hi)

\* batch_burn in one pass: each entry is validated and written in turn
RECURSIVE batch_single_pass(_, _, _, _, _, _)
batch_single_pass(o, token_index, burns, lo, hi, total_burn) ==
    IF lo > hi THEN [ o |-> o, total |-> total_burn ]
    ELSE IF lo = hi
    THEN LET holder == burns[lo][1]
             amount == burns[lo][2]
             balance == get_balance(o.s, token_index, holder)
         IN
         IF validate_amount(amount) # "Ok"
         THEN [ o |-> Err(o, validate_amount(amount)), total |-> total_burn ]
         ELSE IF balance < amount
         THEN [ o |-> Err(o, "InsufficientBalance"), total |-> total_burn ]
         ELSE [ o |-> set_balance(o, token_index, holder, balance - amount),
                total |-> total_burn + amount ]
    ELSE LET mid == (lo + hi) \div 2
             first == batch_single_pass(o, token_index, burns, lo, mid,
                                        total_burn)
         IN
         IF first.o.result # "Running" THEN first
         ELSE batch_single_pass(first.o, token_index, burns, mid + 1, hi,
                                first.total)

batch_burn_single_pass(s, caller, token_index, burns) ==
    LET o0 == Begin(s)
        found == get_token_info(s, token_index)
        done == batch_single_pass(o0, token_index, burns, 1, Len(burns), 0)
    IN
    IF ~has_admin(s) THEN Panic(o0)
    ELSE IF caller # get_admin(s) THEN Err(o0, "Unauthorized")
    ELSE IF Len(burns) > MAX_BATCH_BURN THEN Err(o0, "BatchTooLarge")
    ELSE IF Len(burns) = 0 THEN Err(o0, "InvalidParameters")
    ELSE IF is_none(found) THEN Err(o0, "TokenNotFound")
    ELSE IF done.o.result # "Running" THEN done.o
    ELSE IF unwrap(found).total_supply < done.total
         THEN Err(done.o, "InsufficientBalance")
    ELSE Ok(emit_batch_burn_event(
            increment_burn_count(
                set_token_info(done.o, token_index,
                    [ unwrap(found) EXCEPT
                        !.total_supply = @ - done.total ]),
                token_index)))

\* batch_burn refusing a batch of MAX_BATCH_BURN entries as too large
batch_burn_limit_exclusive(s, caller, token_index, burns) ==
    LET o0 == Begin(s)
        found == get_token_info(s, token_index)
        checked == batch_validate(s, token_index, burns, 1, Len(burns), 0)
    IN
    IF ~has_admin(s) THEN Panic(o0)
    ELSE IF caller # get_admin(s) THEN Err(o0, "Unauthorized")
    ELSE IF Len(burns) >= MAX_BATCH_BURN THEN Err(o0, "BatchTooLarge")
    ELSE IF Len(burns) = 0 THEN Err(o0, "InvalidParameters")
    ELSE IF is_none(found) THEN Err(o0, "TokenNotFound")
    ELSE IF checked.err # "Ok" THEN Err(o0, checked.err)
    ELSE IF unwrap(found).total_supply < checked.total
         THEN Err(o0, "InsufficientBalance")
    ELSE LET info == unwrap(found)
             o1 == batch_mutate(o0, token_index, burns, 1, Len(burns))
             new_supply == checked_sub(info.total_supply, checked.total)
         IN
         IF o1.result # "Running" THEN o1
         ELSE IF is_none(new_supply) THEN Err(o1, "ArithmeticError")
         ELSE Ok(emit_batch_burn_event(
                 increment_burn_count(
                     set_token_info(o1, token_index,
                         [ info EXCEPT !.total_supply = unwrap(new_supply) ]),
                     token_index)))

batch_burn(s, caller, token_index, burns) ==
    LET o0 == Begin(s)
        found == get_token_info(s, token_index)
        checked == batch_validate(s, token_index, burns, 1, Len(burns), 0)
    IN
    IF ~has_admin(s) THEN Panic(o0)
    ELSE IF caller # get_admin(s) THEN Err(o0, "Unauthorized")
    ELSE IF Len(burns) > MAX_BATCH_BURN THEN Err(o0, "BatchTooLarge")
    ELSE IF Len(burns) = 0 THEN Err(o0, "InvalidParameters")
    ELSE IF is_none(found) THEN Err(o0, "TokenNotFound")
    ELSE IF checked.err # "Ok" THEN Err(o0, checked.err)
    ELSE IF unwrap(found).total_supply < checked.total
         THEN Err(o0, "InsufficientBalance")
    ELSE LET info == unwrap(found)
             o1 == batch_mutate(o0, token_index, burns, 1, Len(burns))
             new_supply == checked_sub(info.total_supply, checked.total)
         IN
         IF o1.result # "Running" THEN o1
         ELSE IF is_none(new_supply) THEN Err(o1, "ArithmeticError")
         ELSE Ok(emit_batch_burn_event(
                 increment_burn_count(
                     set_token_info(o1, token_index,
                         [ info EXCEPT !.total_supply = unwrap(new_supply) ]),
                     token_index)))

\* ------------------------------------------------------------------------
\*  Actions
\* ------------------------------------------------------------------------

\* commit the outcome of a handler: the store it left, its log, its result
Commit(o, op, caller, args) ==
    /\ admin' = o.s.admin
    /\ treasury' = o.s.treasury
    /\ base_fee' = o.s.base_fee
    /\ metadata_fee' = o.s.metadata_fee
    /\ paused' = o.s.paused
    /\ token_count' = o.s.token_count
    /\ tokens' = o.s.tokens
    /\ tokens_by_address' = o.s.tokens_by_address
    /\ balances' = o.s.balances
    /\ burn_counts' = o.s.burn_counts
    /\ log' = o.log
    /\ call' = [ op |-> op, caller |-> caller, args |-> args,
                 result |-> o.result ]

Init ==
    /\ admin = EmptyStore.admin
    /\ treasury = EmptyStore.treasury
    /\ base_fee = EmptyStore.base_fee
    /\ metadata_fee = EmptyStore.metadata_fee
    /\ paused = EmptyStore.paused
    /\ token_count = EmptyStore.token_count
    /\ tokens = EmptyStore.tokens
    /\ tokens_by_address = EmptyStore.tokens_by_address
    /\ balances = EmptyStore.balances
    /\ burn_counts = EmptyStore.burn_counts
    /\ log = << >>
    /\ call = [ op |-> "deploy", caller |-> None, args |-> << >>,
                result |-> "Ok" ]

\* fee inputs: one negative value and the valid ones
Fees == (0 - 1) .. MaxFee
OptFees == {None} \cup {Some(f) : f \in Fees}
OptBools == {None, Some(TRUE), Some(FALSE)}

Initialize(a, t, bf, mf) ==
    Commit(initialize(Store, a, t, bf, mf), "initialize", None,
           [admin |-> a, treasury |-> t, base_fee |-> bf, metadata_fee |-> mf])

TransferAdmin(c, n) ==
    Commit(transfer_admin(Store, c, n), "transfer_admin", Some(c),
           [new_admin |-> n])

Pause(c) == Commit(pause(Store, c), "pause", Some(c), << >>)

Unpause(c) == Commit(unpause(Store, c), "unpause", Some(c), << >>)

UpdateFees(c, bf, mf) ==
    Commit(update_fees(Store, c, bf, mf), "update_fees", Some(c),
           [base_fee |-> bf, metadata_fee |-> mf])

BatchUpdateAdmin(c, bf, mf, p) ==
    Commit(batch_update_admin(Store, c, bf, mf, p), "batch_update_admin",
           Some(c), [base_fee |-> bf, metadata_fee |-> mf, paused |-> p])

\* the configuration state machine alone
NextConfig ==
    \/ \E a \in Addresses, t \in Addresses, bf \in Fees, mf \in Fees :
          Initialize(a, t, bf, mf)
    \/ \E c \in Addresses, n \in Addresses : TransferAdmin(c, n)
    \/ \E c \in Addresses : Pause(c)
    \/ \E c \in Addresses : Unpause(c)
    \/ \E c \in Addresses, bf \in OptFees, mf \in OptFees : UpdateFees(c, bf, mf)
    \/ \E c \in Addresses, bf \in OptFees, mf \in OptFees, p \in OptBools :
          BatchUpdateAdmin(c, bf, mf, p)

SpecConfig == Init /\ [][NextConfig]_vars

\* ------------------------------------------------------------------------
\*  Token actions and the whole registry
\* ------------------------------------------------------------------------

\* burn amounts: non-positive, within a balance, above every balance
Amounts == (0 - 1) .. (MaxSupply + 1)

\* ways of minting n units over the holders
Distributions(n) ==
    { d \in [Addresses -> 0 .. n] : d["A1"] + d["A2"] = n }

\* entry lists of batch_burn: every list of at most MaxBatchLen entries
BurnEntries == Addresses \X (0 .. MaxSupply)
Batches == UNION { [1 .. n -> BurnEntries] : n \in 0 .. MaxBatchLen }

\* token indices offered to the handlers: the issuable ones and one more
OfferedIndices == 0 .. MaxTokens

CreateToken(c, n, d) ==
    /\ get_token_count(Store) < MaxTokens
    /\ Commit(create_token(Store, c, n, d), "create_token", Some(c),
              [initial_supply |-> n, dist |-> d])

\* issuance of the first token only, for the specifications that follow one
\* token
CreateFirstToken(c, n, d) ==
    /\ get_token_count(Store) = 0
    /\ CreateToken(c, n, d)

SetClawback(t, c, e) ==
    Commit(set_clawback(Store, t, c, e), "set_clawback", Some(c),
           [token_address |-> t, enabled |-> e])

Burn(c, t, amt) ==
    Commit(burn(Store, c, t, amt), "burn", Some(c),
           [token_index |-> t, amount |-> amt])

AdminBurn(c, t, h, amt) ==
    Commit(admin_burn(Store, c, t, h, amt), "admin_burn", Some(c),
           [token_index |-> t, holder |-> h, amount |-> amt])

BatchBurn(c, t, b) ==
    Commit(batch_burn(Store, c, t, b), "batch_burn", Some(c),
           [token_index |-> t, burns |-> b])

\* the burn engine on a registry whose fees stay as initialized
NextBurn ==
    \/ \E a \in Addresses : Initialize(a, "A1", 0, 0)
    \/ \E c \in Addresses, n \in Addresses : TransferAdmin(c, n)
    \/ \E c \in Addresses, n \in 1 .. MaxSupply :
          \E d \in Distributions(n) : CreateFirstToken(c, n, d)
    \/ \E c \in Addresses, t \in OfferedIndices, amt \in Amounts :
          Burn(c, t, amt)
    \/ \E c \in Addresses, t \in OfferedIndices, h \in Addresses,
          amt \in Amounts : AdminBurn(c, t, h, amt)
    \/ \E c \in Addresses, t \in OfferedIndices, b \in Batches :
          BatchBurn(c, t, b)

SpecBurn == Init /\ [][NextBurn]_vars

\* entry lists at the size limit of batch_burn: empty, of MAX_BATCH_BURN and
\* of MAX_BATCH_BURN + 1 entries, naming one holder throughout or the two
\* holders in turn, each entry of amount 0 or 1
LimitLengths == {0, MAX_BATCH_BURN, MAX_BATCH_BURN + 1}
LimitBatches ==
    { [ i \in 1 .. n |-> <<h, a>> ] :
          n \in LimitLengths, h \in Addresses, a \in {0, 1} }
    \cup { [ i \in 1 .. n |-> <<IF i % 2 = 1 THEN "A1" ELSE "A2", 1>> ] :
              n \in LimitLengths }

\* the batch size limit on tokens issued with MAX_BATCH_BURN units, held by
\* one holder or in halves
NextBatchLimit ==
    \/ \E a \in Addresses : Initialize(a, "A1", 0, 0)
    \/ \E c \in Addresses :
          \E d \in { x \in Distributions(MAX_BATCH_BURN) :
                        x["A1"] \in {0, MAX_BATCH_BURN \div 2,
                                     MAX_BATCH_BURN} } :
             CreateFirstToken(c, MAX_BATCH_BURN, d)
    \/ \E c \in Addresses, t \in OfferedIndices, b \in LimitBatches :
          BatchBurn(c, t, b)

SpecBatchLimit == Init /\ [][NextBatchLimit]_vars

\* the validators on stores written key by key with the storage setters:
\* each configuration key absent or set, token_count up to one more than
\* the issuable indices, each record absent or present
SampleInfo ==
    [ address |-> TokenAddress(0), creator |-> "A1", name |-> "Test Token",
      symbol |-> "TST", decimals |-> 7, total_supply |-> 1,
      initial_supply |-> 1, total_burned |-> 0, burn_count |-> 0,
      metadata_uri |-> None, clawback_enabled |-> FALSE ]

InitValidate ==
    /\ admin \in {None} \cup {Some(a) : a \in Addresses}
    /\ treasury \in {None} \cup {Some(a) : a \in Addresses}
    /\ base_fee \in OptFees
    /\ metadata_fee \in OptFees
    /\ paused = None
    /\ token_count \in {None} \cup {Some(n) : n \in 0 .. (MaxTokens + 1)}
    /\ tokens \in [TokenIndices -> {None, Some(SampleInfo)}]
    /\ tokens_by_address = EmptyStore.tokens_by_address
    /\ balances = EmptyStore.balances
    /\ burn_counts = EmptyStore.burn_counts
    /\ log = << >>
    /\ call = [ op |-> "deploy", caller |-> None, args |-> << >>,
                result |-> "Ok" ]

\* a validator reads the store and returns its result
Validate(op, result) ==
    /\ call' = [ op |-> op, caller |-> None, args |-> << >>,
                 result |-> result ]
    /\ log' = << >>
    /\ UNCHANGED << admin, treasury, base_fee, metadata_fee, paused,
                    token_count, tokens, tokens_by_address, balances,
                    burn_counts >>

ValidateAdmin == Validate("validate_admin", validate_admin(Store))

ValidateTreasury == Validate("validate_treasury", validate_treasury(Store))

ValidateFees == Validate("validate_fees", validate_fees(Store))

ValidateTokenCount ==
    Validate("validate_token_count", validate_token_count(Store))

ValidateState == Validate("validate_state", validate_state(Store))

NextValidate ==
    \/ ValidateAdmin
    \/ ValidateTreasury
    \/ ValidateFees
    \/ ValidateTokenCount
    \/ ValidateState

SpecValidate == InitValidate /\ [][NextValidate]_vars

\* every operation on a registry of up to MaxTokens tokens, each issued with
\* one unit held by one holder; fees are offered as 0, amounts as 1 and
\* batches as the one-entry lists
NextTokens ==
    \/ \E a \in Addresses : Initialize(a, "A1", 0, 0)
    \/ \E c \in Addresses, n \in Addresses : TransferAdmin(c, n)
    \/ \E c \in Addresses : Pause(c)
    \/ \E c \in Addresses : Unpause(c)
    \/ \E c \in Addresses : UpdateFees(c, Some(0), None)
    \/ \E c \in Addresses : BatchUpdateAdmin(c, None, Some(0), None)
    \/ \E c \in Addresses : \E d \in Distributions(1) : CreateToken(c, 1, d)
    \/ \E i \in TokenIndices, c \in Addresses, e \in BOOLEAN :
          SetClawback(TokenAddress(i), c, e)
    \/ \E c \in Addresses, t \in TokenIndices : Burn(c, t, 1)
    \/ \E c \in Addresses, t \in TokenIndices, h \in Addresses :
          AdminBurn(c, t, h, 1)
    \/ \E c \in Addresses, t \in TokenIndices, h \in Addresses :
          BatchBurn(c, t, << <<h, 1>> >>)

SpecTokens == Init /\ [][NextTokens]_vars

\* amounts at the bounds of the integer type: the least value, one unit, and
\* the two greatest values
ExtremeAmounts == {I128_MIN, 1, I128_MAX - 1, I128_MAX}

\* ways of minting the greatest supply: all to one holder, or all but one
\* unit
ExtremeDistributions ==
    { d \in [Addresses -> {0, 1, I128_MAX - 1, I128_MAX}] :
         d["A1"] + d["A2"] = I128_MAX }

\* entry lists of at most two entries of one unit or of all but one unit
ExtremeBatches ==
    UNION { [1 .. n -> Addresses \X {1, I128_MAX - 1}] : n \in 0 .. 2 }

\* fewer than MaxBurns burns were counted on token 0
BurnsLeft == get_burn_count(Store, 0) < MaxBurns

\* the burn engine on a token issued with the greatest supply
NextExtreme ==
    \/ Initialize("A1", "A1", 0, 0)
    \/ \E d \in ExtremeDistributions : CreateFirstToken("A1", I128_MAX, d)
    \/ \E c \in Addresses, amt \in ExtremeAmounts :
          BurnsLeft /\ Burn(c, 0, amt)
    \/ \E c \in Addresses, h \in Addresses, amt \in ExtremeAmounts :
          BurnsLeft /\ AdminBurn(c, 0, h, amt)
    \/ \E c \in Addresses, b \in ExtremeBatches :
          BurnsLeft /\ BatchBurn(c, 0, b)

SpecExtreme == Init /\ [][NextExtreme]_vars

\* every operation of the registry; fees are offered as -1 and 0, amounts
\* as 0 and 1 and batches as the lists of at most one entry
Next ==
    \/ \E a \in Addresses, bf \in {0 - 1, 0}, mf \in {0 - 1, 0} :
          Initialize(a, "A1", bf, mf)
    \/ \E c \in Addresses, n \in Addresses : TransferAdmin(c, n)
    \/ \E c \in Addresses : Pause(c)
    \/ \E c \in Addresses : Unpause(c)
    \/ \E c \in Addresses, bf \in {None, Some(0 - 1), Some(0)} :
          UpdateFees(c, bf, None)
    \/ \E c \in Addresses, mf \in {None, Some(0 - 1), Some(0)},
          p \in OptBools : BatchUpdateAdmin(c, None, mf, p)
    \/ \E c \in Addresses, n \in 1 .. MaxSupply :
          \E d \in Distributions(n) : CreateFirstToken(c, n, d)
    \/ \E i \in OfferedIndices, c \in Addresses, e \in BOOLEAN :
          SetClawback(TokenAddress(i), c, e)
    \/ \E c \in Addresses, t \in OfferedIndices, amt \in {0, 1} :
          Burn(c, t, amt)
    \/ \E c \in Addresses, t \in OfferedIndices, h \in Addresses,
          amt \in {0, 1} : AdminBurn(c, t, h, amt)
    \/ \E c \in Addresses, t \in OfferedIndices :
          \E b \in { x \in Batches : Len(x) <= 1 } : BatchBurn(c, t, b)

Spec == Init /\ [][Next]_vars

\* ------------------------------------------------------------------------
\*  Properties
\* ------------------------------------------------------------------------

AdminOps ==
    {"transfer_admin", "pause", "unpause", "update_fees", "batch_update_admin"}
PrivilegedBurnOps == {"admin_burn", "batch_burn"}
BurnOps == {"burn"} \cup PrivilegedBurnOps

\* the sum of the balances of token index i in the balance map bal
BalanceSum(bal, i) ==
    LET RECURSIVE sum(_)
        sum(S) == IF S = {} THEN 0
                  ELSE LET h == CHOOSE x \in S : TRUE
                       IN  unwrap_or(bal[<<i, h>>], 0) + sum(S \ {h})
    IN  sum(Addresses)

\* the last call was a burn of some kind that returned Ok
BurnSucceeded == call.op \in BurnOps /\ call.result = "Ok"

\* C1: after each successful burn, admin_burn or batch_burn the token record
\* satisfies total_supply + total_burned = initial_supply.
C1_SupplyConservation ==
    BurnSucceeded =>
        LET info == unwrap(tokens[call.args.token_index])
        IN  info.total_supply + info.total_burned = info.initial_supply

\* C2: if the balances of a token sum to its total_supply before a call,
\* they still sum to it after a successful burn, admin_burn or batch_burn
\* on that token.
C2_BalanceConsistency ==
    [][ ( /\ call'.op \in BurnOps
          /\ call'.result = "Ok"
          /\ BalanceSum(balances, call'.args.token_index)
                = unwrap(tokens[call'.args.token_index]).total_supply )
        => BalanceSum(balances', call'.args.token_index)
                = unwrap(tokens'[call'.args.token_index]).total_supply
      ]_vars

\* a successful two-entry batch burn left the balances summing to the supply
C2_Witness ==
    /\ call.op = "batch_burn"
    /\ call.result = "Ok"
    /\ Len(call.args.burns) = 2
    /\ BalanceSum(balances, call.args.token_index)
          = unwrap(tokens[call.args.token_index]).total_supply
    /\ unwrap(tokens[call.args.token_index]).total_supply
          < unwrap(tokens[call.args.token_index]).initial_supply

\* entry e of a batch on token index t is invalid in balance map bal
InvalidEntry(bal, t, e) ==
    \/ e[2] <= 0
    \/ (IF <<t, e[1]>> \in DOMAIN bal THEN unwrap_or(bal[<<t, e[1]>>], 0)
        ELSE 0) < e[2]

\* C3: a batch_burn with an invalid entry (amount <= 0, or a holder balance
\* below the amount) fails and changes no balance, record or burn count,
\* also when valid entries precede the invalid one.
C3_BatchAtomicity ==
    [][ ( /\ call'.op = "batch_burn"
          /\ \E i \in 1 .. Len(call'.args.burns) :
                InvalidEntry(balances, call'.args.token_index,
                             call'.args.burns[i]) )
        => /\ call'.result # "Ok"
           /\ UNCHANGED << balances, tokens, tokens_by_address, burn_counts >>
      ]_vars

\* the admin's batch was rejected on its second entry after a valid first one
C3_Witness ==
    /\ call.op = "batch_burn"
    /\ call.result = "InsufficientBalance"
    /\ Len(call.args.burns) = 2
    /\ ~InvalidEntry(balances, call.args.token_index, call.args.burns[1])
    /\ InvalidEntry(balances, call.args.token_index, call.args.burns[2])
    /\ call.args.burns[2][2] > 0

\* C4: across any step, successful or failed, total_burned and burn_count of
\* a token (the stored counter and the record field) never decrease.
C4_Monotonic ==
    [][ \A i \in TokenIndices :
          /\ unwrap_or(burn_counts'[i], 0) >= unwrap_or(burn_counts[i], 0)
          /\ is_some(burn_counts[i]) => is_some(burn_counts'[i])
          /\ is_some(tokens[i]) =>
                /\ is_some(tokens'[i])
                /\ unwrap(tokens'[i]).total_burned
                      >= unwrap(tokens[i]).total_burned
                /\ unwrap(tokens'[i]).burn_count
                      >= unwrap(tokens[i]).burn_count
          /\ is_some(tokens_by_address[TokenAddress(i)]) =>
                /\ is_some(tokens_by_address'[TokenAddress(i)])
                /\ unwrap(tokens_by_address'[TokenAddress(i)]).total_burned
                      >= unwrap(tokens_by_address[TokenAddress(i)]).total_burned
                /\ unwrap(tokens_by_address'[TokenAddress(i)]).burn_count
                      >= unwrap(tokens_by_address[TokenAddress(i)]).burn_count
      ]_vars

\* a token has been burned twice
C4_Witness ==
    \E i \in TokenIndices :
        burn_counts[i] = Some(2) /\ call.op \in BurnOps /\ call.result = "Ok"

\* C5: on an initialized registry, an admin-gated call by anyone but the
\* stored admin returns Unauthorized, whatever its other arguments, and
\* leaves admin, treasury, both fees and paused unchanged.
C5_AdminOnly ==
    [][ ( /\ call'.op \in AdminOps
          /\ is_some(admin)
          /\ call'.caller # admin )
        => /\ call'.result = "Unauthorized"
           /\ UNCHANGED << admin, treasury, base_fee, metadata_fee, paused >>
      ]_vars

\* a non-admin sent an update_fees without any fee and got Unauthorized
C5_Witness ==
    /\ call.op = "update_fees"
    /\ is_some(admin)
    /\ call.caller # admin
    /\ call.args.base_fee = None
    /\ call.args.metadata_fee = None
    /\ call.result = "Unauthorized"

\* C6: a privileged burn (admin_burn, batch_burn) succeeds only when the
\* caller is the creator of the token.
C6_PrivilegedBurnByCreator ==
    (call.op \in PrivilegedBurnOps /\ call.result = "Ok") =>
        call.caller = Some(unwrap(tokens[call.args.token_index]).creator)

\* C7: on an initialized registry, initialize returns AlreadyInitialized,
\* whatever its arguments, and leaves the configuration as it was.
C7_DoubleInit ==
    [][ (call'.op = "initialize" /\ is_some(admin))
        => /\ call'.result = "AlreadyInitialized"
           /\ UNCHANGED << admin, treasury, base_fee, metadata_fee, paused >>
      ]_vars

\* a second initialize with another admin and a negative fee was rejected
C7_Witness ==
    /\ call.op = "initialize"
    /\ call.result = "AlreadyInitialized"
    /\ call.args.base_fee < 0
    /\ Some(call.args.admin) # admin

\* some supplied fee is negative, or none is supplied
BadFeeUpdate(bf, mf) ==
    \/ is_none(bf) /\ is_none(mf)
    \/ is_some(bf) /\ unwrap(bf) < 0
    \/ is_some(mf) /\ unwrap(mf) < 0

C9_FeesNonNegative ==
    is_some(admin) =>
        /\ is_some(base_fee) /\ unwrap(base_fee) >= 0
        /\ is_some(metadata_fee) /\ unwrap(metadata_fee) >= 0

\* the admin offered a valid base fee with a negative metadata fee
C9_Witness ==
    /\ is_some(admin)
    /\ call.op = "update_fees"
    /\ call.caller = admin
    /\ is_some(call.args.base_fee)
    /\ call.args.metadata_fee = Some(0 - 1)
    /\ call.result = "InvalidParameters"

\* C10: before initialize has succeeded, no admin-gated operation and no
\* token operation succeeds or changes the store.
C10_NothingBeforeInitialize ==
    [][ ( /\ is_none(admin)
          /\ call'.op \in AdminOps \cup BurnOps \cup {"set_clawback"} )
        => /\ call'.result # "Ok"
           /\ UNCHANGED << admin, treasury, base_fee, metadata_fee, paused,
                           token_count, tokens, tokens_by_address, balances,
                           burn_counts >>
      ]_vars

\* pause was called on the uninitialized registry and trapped
C10_Witness ==
    /\ is_none(admin)
    /\ call.op = "pause"
    /\ call.result = "Panic"

\* C11: a successful initialize(admin, treasury, base_fee, metadata_fee) on
\* an uninitialized registry leaves a state in which get_state returns
\* exactly those four values and paused = FALSE.
C11_InitializeState ==
    [][ (call'.op = "initialize" /\ call'.result = "Ok")
        => /\ is_none(admin)
           /\ call'.args.base_fee >= 0 /\ call'.args.metadata_fee >= 0
           /\ get_state(Store') =
                 [ admin |-> call'.args.admin,
                   treasury |-> call'.args.treasury,
                   base_fee |-> call'.args.base_fee,
                   metadata_fee |-> call'.args.metadata_fee,
                   paused |-> FALSE ]
      ]_vars

\* the registry was initialized with two different addresses and two
\* different fees, and get_state reads them back
C11_Witness ==
    /\ call.op = "initialize"
    /\ call.result = "Ok"
    /\ call.args.admin # call.args.treasury
    /\ call.args.base_fee # call.args.metadata_fee
    /\ get_state(Store).base_fee = call.args.base_fee
    /\ get_state(Store).paused = FALSE

\* C12: a successful transfer_admin(old, new) stores new as the admin; from
\* then on an admin-gated call by old returns Unauthorized and one by new
\* is authorized, and the stored admin changes again only by a further
\* successful transfer, so the same holds along a chain of transfers.
C12_TransferAdmin ==
    [][ /\ (call'.op = "transfer_admin" /\ call'.result = "Ok")
            => /\ admin = call'.caller
               /\ admin' = Some(call'.args.new_admin)
               /\ admin' # admin
        /\ ( /\ call.op = "transfer_admin" /\ call.result = "Ok"
             /\ call'.op \in AdminOps )
            => /\ call'.caller = call.caller => call'.result = "Unauthorized"
               /\ call'.caller = Some(call.args.new_admin)
                     => call'.result \notin {"Unauthorized", "Panic"}
        /\ (call'.op \in AdminOps /\ is_some(admin))
            => (call'.result = "Unauthorized" <=> call'.caller # admin)
        /\ (is_some(admin) /\ admin' # admin)
            => call'.op = "transfer_admin" /\ call'.result = "Ok"
      ]_vars

\* the admin handed the registry over; the former admin is no longer stored
C12_Witness ==
    /\ call.op = "transfer_admin"
    /\ call.result = "Ok"
    /\ admin = Some(call.args.new_admin)
    /\ call.caller # admin

\* C13: transfer_admin(caller, new_admin) by the current admin with
\* new_admin = caller returns InvalidParameters and leaves the stored admin
\* unchanged.
C13_TransferToSelf ==
    [][ ( /\ call'.op = "transfer_admin"
          /\ is_some(admin)
          /\ call'.caller = admin
          /\ Some(call'.args.new_admin) = call'.caller )
        => /\ call'.result = "InvalidParameters"
           /\ admin' = admin
           /\ log' = << >>
      ]_vars

\* the admin named itself as the new admin and was rejected
C13_Witness ==
    /\ call.op = "transfer_admin"
    /\ call.caller = admin
    /\ Some(call.args.new_admin) = admin
    /\ call.result = "InvalidParameters"

\* the outcome of admin-gated operation op called by c with args on store s
AdminOutcome(s, op, c, args) ==
    CASE op = "transfer_admin" -> transfer_admin(s, c, args.new_admin)
      [] op = "pause" -> pause(s, c)
      [] op = "unpause" -> unpause(s, c)
      [] op = "update_fees" ->
            update_fees(s, c, args.base_fee, args.metadata_fee)
      [] op = "batch_update_admin" ->
            batch_update_admin(s, c, args.base_fee, args.metadata_fee,
                               args.paused)

\* C14: while paused is true, an admin-gated call by the current admin is
\* not refused for the pause and has the result and the effect it has on
\* the same registry unpaused; unpause by the admin succeeds and clears
\* the flag.
C14_AdminOpsWhilePaused ==
    [][ ( /\ call'.op \in AdminOps
          /\ is_some(admin)
          /\ call'.caller = admin
          /\ paused = Some(TRUE) )
        => LET u == AdminOutcome([ Store EXCEPT !.paused = Some(FALSE) ],
                                 call'.op, unwrap(call'.caller), call'.args)
           IN  /\ call'.result = u.result
               /\ call'.result \notin {"ContractPaused", "Unauthorized", "Panic"}
               /\ log' = u.log
               /\ admin' = u.s.admin
               /\ treasury' = u.s.treasury
               /\ base_fee' = u.s.base_fee
               /\ metadata_fee' = u.s.metadata_fee
               /\ paused' = IF \E i \in 1 .. Len(u.log) :
                                    u.log[i] = <<"set", "Paused">>
                            THEN u.s.paused ELSE paused
               /\ call'.op \in {"pause", "unpause"} => call'.result = "Ok"
               /\ call'.op = "unpause" => paused' = Some(FALSE)
      ]_vars

\* the admin changed a fee on a paused registry, which stayed paused
C14_Witness ==
    /\ call.op = "update_fees"
    /\ call.caller = admin
    /\ call.result = "Ok"
    /\ paused = Some(TRUE)
    /\ base_fee = call.args.base_fee

\* C15: a successful update_fees sets exactly the supplied fee fields to the
\* supplied values and leaves the fee that is not supplied, admin, treasury
\* and paused unchanged.
C15_UpdateFeesFrame ==
    [][ (call'.op = "update_fees" /\ call'.result = "Ok")
        => /\ base_fee' = IF is_some(call'.args.base_fee)
                          THEN call'.args.base_fee ELSE base_fee
           /\ metadata_fee' = IF is_some(call'.args.metadata_fee)
                              THEN call'.args.metadata_fee ELSE metadata_fee
           /\ UNCHANGED << admin, treasury, paused >>
      ]_vars

\* only the base fee was supplied; the metadata fee kept a value that is
\* neither the supplied one nor the default
C15_Witness ==
    /\ call.op = "update_fees"
    /\ call.result = "Ok"
    /\ call.args.base_fee = Some(0)
    /\ call.args.metadata_fee = None
    /\ base_fee = Some(0)
    /\ metadata_fee = Some(1)

\* C16: batch_update_admin by the admin returns InvalidParameters and leaves
\* base_fee, metadata_fee and paused unchanged when every field is absent
\* or a supplied fee is negative, also when a valid fee or a paused value
\* comes with the negative fee.
C16_BatchUpdateValidatesFirst ==
    [][ ( /\ call'.op = "batch_update_admin"
          /\ is_some(admin)
          /\ call'.caller = admin
          /\ \/ BadFeeUpdate(call'.args.base_fee, call'.args.metadata_fee)
                   /\ (is_some(call'.args.base_fee)
                          \/ is_some(call'.args.metadata_fee))
             \/ /\ is_none(call'.args.base_fee)
                /\ is_none(call'.args.metadata_fee)
                /\ is_none(call'.args.paused) )
        => /\ call'.result = "InvalidParameters"
           /\ UNCHANGED << base_fee, metadata_fee, paused >>
           /\ log' = << >>
      ]_vars

\* a valid base fee and a pause request came with a negative metadata fee:
\* the call was rejected and neither the fee nor the flag was stored
C16_Witness ==
    /\ call.op = "batch_update_admin"
    /\ call.caller = admin
    /\ call.args.base_fee = Some(1)
    /\ call.args.metadata_fee = Some(0 - 1)
    /\ call.args.paused = Some(TRUE)
    /\ call.result = "InvalidParameters"
    /\ base_fee # Some(1)
    /\ paused # Some(TRUE)

\* C17: on an unpaused registry, set_clawback(token, caller, enabled) on an
\* issued token returns Unauthorized and changes no record when the caller
\* is not the creator; by the creator it returns Ok and the record of that
\* token address has clawback_enabled = enabled and is otherwise unchanged,
\* whatever the flag was before.
C17_SetClawbackByCreator ==
    [][ ( /\ call'.op = "set_clawback"
          /\ ~is_paused(Store)
          /\ is_some(get_token_info_by_address(Store,
                                               call'.args.token_address)) )
        => LET t == call'.args.token_address
               before == unwrap(tokens_by_address[t])
           IN  IF call'.caller # Some(before.creator)
               THEN /\ call'.result = "Unauthorized"
                    /\ UNCHANGED << tokens, tokens_by_address >>
               ELSE /\ call'.result = "Ok"
                    /\ tokens_by_address' =
                          [ tokens_by_address EXCEPT ![t] =
                              Some([ before EXCEPT !.clawback_enabled =
                                                      call'.args.enabled ]) ]
      ]_vars

\* the creator, who is not the registry admin, enabled clawback
C17_Witness ==
    /\ call.op = "set_clawback"
    /\ call.result = "Ok"
    /\ call.args.enabled = TRUE
    /\ call.caller # admin
    /\ unwrap(tokens_by_address[call.args.token_address]).clawback_enabled

\* C18: while the registry is paused every set_clawback call returns
\* ContractPaused, whoever calls and whether or not the token exists, and
\* no token record changes.
C18_SetClawbackPaused ==
    [][ (call'.op = "set_clawback" /\ is_paused(Store))
        => /\ call'.result = "ContractPaused"
           /\ UNCHANGED << tokens, tokens_by_address >>
           /\ log' = << >>
      ]_vars

\* set_clawback for a token address that was never issued, on a paused
\* registry
C18_Witness ==
    /\ call.op = "set_clawback"
    /\ call.result = "ContractPaused"
    /\ paused = Some(TRUE)
    /\ call.args.token_address \notin TokenAddresses

\* clawback is enabled for token index i, in the record stored under the
\* index or in the one stored under the token address
ClawbackEnabled(i) ==
    \/ is_some(tokens[i]) /\ unwrap(tokens[i]).clawback_enabled
    \/ /\ is_some(tokens_by_address[TokenAddress(i)])
       /\ unwrap(tokens_by_address[TokenAddress(i)]).clawback_enabled

\* C19: admin_burn succeeds only while clawback is enabled for the token;
\* with clawback_enabled false it fails with ClawbackDisabled.
C19_AdminBurnNeedsClawback ==
    (call.op = "admin_burn" /\ call.result = "Ok")
        => ClawbackEnabled(call.args.token_index)

\* C20: a successful burn or admin_burn lowers the balance of the
\* burned-from account (the caller of burn, the holder of admin_burn) by
\* amount, lowers total_supply by amount, raises total_burned by amount and
\* raises the burn count by 1.
C20_BurnAccounting ==
    [][ (call'.op \in {"burn", "admin_burn"} /\ call'.result = "Ok")
        => LET t == call'.args.token_index
               amt == call'.args.amount
               from == IF call'.op = "burn" THEN unwrap(call'.caller)
                       ELSE call'.args.holder
           IN  /\ get_balance(Store', t, from)
                     = get_balance(Store, t, from) - amt
               /\ unwrap(tokens'[t]).total_supply
                     = unwrap(tokens[t]).total_supply - amt
               /\ get_burn_count(Store', t) = get_burn_count(Store, t) + 1
               /\ unwrap(tokens'[t]).total_burned
                     = unwrap(tokens[t]).total_burned + amt
      ]_vars

C22_InvalidAmountFirst ==
    [][ ( /\ call'.op \in {"burn", "admin_burn"}
          /\ call'.args.amount <= 0
          /\ call'.op = "admin_burn"
                => is_some(admin) /\ call'.caller = admin )
        => /\ call'.result = "InvalidParameters"
           /\ UNCHANGED << balances, tokens, tokens_by_address, burn_counts >>
           /\ log' = << >>
      ]_vars

\* a burn of amount 0 on a token index that was never issued
C22_Witness ==
    /\ call.op = "burn"
    /\ call.args.amount = 0
    /\ call.args.token_index \notin TokenIndices
    /\ call.result = "InvalidParameters"

\* the total amount of the entries lo..hi of burns that name holder h
RECURSIVE RangeTotal(_, _, _, _)
RangeTotal(burns, h, lo, hi) ==
    IF lo > hi THEN 0
    ELSE IF lo = hi THEN (IF burns[lo][1] = h THEN burns[lo][2] ELSE 0)
    ELSE RangeTotal(burns, h, lo, (lo + hi) \div 2)
            + RangeTotal(burns, h, (lo + hi) \div 2 + 1, hi)

HolderTotal(burns, h) == RangeTotal(burns, h, 1, Len(burns))

\* every entry of burns has a positive amount and no holder is asked for
\* more than its balance of token index t
ValidBatch(s, t, burns) ==
    /\ \A i \in 1 .. Len(burns) : burns[i][2] > 0
    /\ \A h \in Addresses : HolderTotal(burns, h) <= get_balance(s, t, h)

\* C23: batch_burn by the admin returns BatchTooLarge for more than 100
\* entries, whatever the token index and the entries are, InvalidParameters
\* for no entries, and Ok for exactly 100 valid entries on an issued token.
C23_BatchSizeLimit ==
    [][ ( /\ call'.op = "batch_burn"
          /\ is_some(admin)
          /\ call'.caller = admin )
        => LET b == call'.args.burns
               t == call'.args.token_index
           IN  /\ Len(b) > 100 => call'.result = "BatchTooLarge"
               /\ Len(b) = 0 => call'.result = "InvalidParameters"
               /\ ( /\ Len(b) = 100
                    /\ is_some(get_token_info(Store, t))
                    /\ ValidBatch(Store, t, b) )
                     => call'.result = "Ok"
      ]_vars

\* a batch of exactly 100 entries over both holders was burned
C23_Witness ==
    /\ call.op = "batch_burn"
    /\ Len(call.args.burns) = 100
    /\ call.args.burns[1][1] # call.args.burns[2][1]
    /\ call.result = "Ok"
    /\ unwrap(tokens[call.args.token_index]).total_supply = 0

\* the total amount of all entries of burns
BatchTotal(burns) == HolderTotal(burns, "A1") + HolderTotal(burns, "A2")

\* C24: a successful batch_burn of n entries lowers each listed holder's
\* balance by its entry amounts, lowers total_supply and raises
\* total_burned by the sum of the amounts, and raises the burn count by n.
C24_BatchAccounting ==
    [][ (call'.op = "batch_burn" /\ call'.result = "Ok")
        => LET t == call'.args.token_index
               b == call'.args.burns
           IN  /\ \A h \in Addresses :
                     get_balance(Store', t, h)
                        = get_balance(Store, t, h) - HolderTotal(b, h)
               /\ unwrap(tokens'[t]).total_supply
                     = unwrap(tokens[t]).total_supply - BatchTotal(b)
               /\ unwrap(tokens'[t]).total_burned
                     = unwrap(tokens[t]).total_burned + BatchTotal(b)
               /\ get_burn_count(Store', t)
                     = get_burn_count(Store, t) + Len(b)
      ]_vars

\* C25: while the registry is paused no burn, admin_burn or batch_burn
\* succeeds: each fails with ContractPaused.
C25_NoBurnWhilePaused ==
    (call.op \in BurnOps /\ is_paused(Store)) => call.result # "Ok"

\* the operations that notify on success
NotifyingOps ==
    {"initialize", "set_clawback"} \cup AdminOps \cup BurnOps

\* the number of notifications among the effects l of a call
RECURSIVE EventCount(_)
EventCount(l) ==
    IF l = << >> THEN 0
    ELSE (IF Head(l)[1] = "event" THEN 1 ELSE 0) + EventCount(Tail(l))

\* C26: each successful initialize, transfer_admin, pause, unpause,
\* update_fees, batch_update_admin, set_clawback, burn, admin_burn and
\* batch_burn emits exactly one notification, and a failed one emits none.
C26_OneNotification ==
    call.op \in NotifyingOps =>
        EventCount(log) = IF call.result = "Ok" THEN 1 ELSE 0

\* C27: in batch_burn, once every entry has passed validation and the total
\* is within the supply, the mutation pass runs to completion: the call
\* returns Ok, and no batch_burn that has written anything returns an
\* error.
C27_MutationPassCompletes ==
    [][ call'.op = "batch_burn"
        => LET t == call'.args.token_index
               b == call'.args.burns
           IN  /\ log' # << >> => call'.result = "Ok"
               /\ ( /\ is_some(admin) /\ call'.caller = admin
                    /\ Len(b) > 0 /\ Len(b) <= MAX_BATCH_BURN
                    /\ is_some(get_token_info(Store, t))
                    /\ \A i \in 1 .. Len(b) : ~InvalidEntry(balances, t, b[i])
                    /\ BatchTotal(b) <= unwrap(tokens[t]).total_supply )
                     => call'.result = "Ok"
      ]_vars

\* a batch naming one holder twice passed validation entry by entry and
\* its mutation pass completed, taking the holder's balance below zero
C27_Witness ==
    /\ call.op = "batch_burn"
    /\ call.result = "Ok"
    /\ Len(call.args.burns) = 2
    /\ call.args.burns[1][1] = call.args.burns[2][1]
    /\ get_balance(Store, call.args.token_index, call.args.burns[1][1]) < 0

\* the four invariants validate_state checks, as conditions on the store
AdminSet == is_some(admin)
TreasurySet == is_some(treasury)
FeesValid ==
    /\ is_some(base_fee) /\ unwrap(base_fee) >= 0
    /\ is_some(metadata_fee) /\ unwrap(metadata_fee) >= 0
TokenCountConsistent ==
    \A i \in 0 .. (unwrap_or(token_count, 0) - 1) :
        i \in TokenIndices /\ is_some(tokens[i])

C29_MissingTreasury ==
    ( /\ call.op \in {"validate_treasury", "validate_state"}
      /\ ~TreasurySet
      /\ call.op = "validate_state" => AdminSet )
        => call.result = "MissingTreasury"

\* C30: with every balance issued >= 0, every Balance(token, holder) stays
\* >= 0 after any sequence of burn, admin_burn and batch_burn calls, also
\* after batches that list a holder more than once.
C30_BalancesNonNegative ==
    \A k \in DOMAIN balances : unwrap_or(balances[k], 0) >= 0

\* C31: with the balances of a token issued >= 0 and summing to its
\* total_supply, total_supply stays >= 0 after any sequence of burn,
\* admin_burn and batch_burn calls.
C31_SupplyNonNegative ==
    \A i \in TokenIndices :
        is_some(tokens[i]) => unwrap(tokens[i]).total_supply >= 0

\* C32: a batch_burn by the admin whose entries are each within the named
\* holder's balance, while the entries naming one holder together exceed
\* it, fails with InsufficientBalance and changes nothing.
C32_DuplicateHolderRejected ==
    [][ LET t == call'.args.token_index
            b == call'.args.burns
        IN  ( /\ call'.op = "batch_burn"
              /\ is_some(admin) /\ call'.caller = admin
              /\ Len(b) > 0 /\ Len(b) <= MAX_BATCH_BURN
              /\ is_some(get_token_info(Store, t))
              /\ \A i \in 1 .. Len(b) : ~InvalidEntry(balances, t, b[i])
              /\ \E h \in Addresses :
                    HolderTotal(b, h) > get_balance(Store, t, h) )
            => /\ call'.result = "InsufficientBalance"
               /\ UNCHANGED << balances, tokens, tokens_by_address,
                               burn_counts >>
      ]_vars

\* C33: for every token, get_token_info by sequential index and
\* get_token_info_by_address by token address return the same record after
\* any sequence of set_clawback and burn operations.
C33_LookupsAgree ==
    \A i \in TokenIndices :
        get_token_info(Store, i)
            = get_token_info_by_address(Store, TokenAddress(i))

\* C34: get_burn_count(token) equals the burn_count field of the record
\* returned by get_token_info(token).
C34_BurnCountAgrees ==
    \A i \in TokenIndices :
        is_some(get_token_info(Store, i))
            => get_burn_count(Store, i)
                  = unwrap(get_token_info(Store, i)).burn_count

\* C35: the total_supply of a token never increases, and it changes only in
\* a successful burn, admin_burn or batch_burn on that token: not in a
\* configuration operation, a set_clawback, a failed call or a burn on
\* another token.
C35_SupplyChangesOnlyByBurn ==
    [][ \A i \in TokenIndices :
          /\ is_some(tokens[i]) =>
                /\ is_some(tokens'[i])
                /\ unwrap(tokens'[i]).total_supply
                      <= unwrap(tokens[i]).total_supply
                /\ unwrap(tokens'[i]).total_supply
                      # unwrap(tokens[i]).total_supply
                      => /\ call'.op \in BurnOps
                         /\ call'.result = "Ok"
                         /\ call'.args.token_index = i
          /\ is_some(tokens_by_address[TokenAddress(i)]) =>
                /\ is_some(tokens_by_address'[TokenAddress(i)])
                /\ unwrap(tokens_by_address'[TokenAddress(i)]).total_supply
                      <= unwrap(tokens_by_address[TokenAddress(i)]).total_supply
                /\ unwrap(tokens_by_address'[TokenAddress(i)]).total_supply
                      # unwrap(tokens_by_address[TokenAddress(i)]).total_supply
                      => /\ call'.op \in BurnOps
                         /\ call'.result = "Ok"
                         /\ call'.args.token_index = i
      ]_vars

\* token 1 was burned to zero while token 0 kept its issued supply
C35_Witness ==
    /\ call.op = "burn"
    /\ call.result = "Ok"
    /\ call.args.token_index = 1
    /\ is_some(tokens[0]) /\ unwrap(tokens[0]).total_supply = 1
    /\ is_some(tokens[1]) /\ unwrap(tokens[1]).total_supply = 0

\* the holders a burn call takes from
BurnedFrom ==
    CASE call.op = "burn" -> {unwrap(call.caller)}
      [] call.op = "admin_burn" -> {call.args.holder}
      [] call.op = "batch_burn" ->
            {call.args.burns[i][1] : i \in 1 .. Len(call.args.burns)}
      [] OTHER -> {}

\* the fields of a token record that no burn may change
FixedFields(info) ==
    << info.address, info.creator, info.name, info.symbol, info.decimals,
       info.initial_supply, info.metadata_uri, info.clawback_enabled >>

\* C36: a successful burn, admin_burn or batch_burn on token t changes only
\* the balances of the burned-from holders of t and t's supply, burned
\* total and burn count: every other balance, every other token's record,
\* balances and burn count, t's identifier, creator, name, symbol, decimals
\* and clawback flag, and the registry configuration are unchanged.
C36_BurnFrame ==
    [][ (call'.op \in BurnOps /\ call'.result = "Ok")
        => LET t == call'.args.token_index IN
           /\ \A k \in DOMAIN balances :
                 (k[1] # t \/ k[2] \notin BurnedFrom')
                    => balances'[k] = balances[k]
           /\ \A i \in TokenIndices \ {t} :
                 /\ tokens'[i] = tokens[i]
                 /\ tokens_by_address'[TokenAddress(i)]
                       = tokens_by_address[TokenAddress(i)]
                 /\ burn_counts'[i] = burn_counts[i]
           /\ FixedFields(unwrap(tokens'[t])) = FixedFields(unwrap(tokens[t]))
           /\ FixedFields(unwrap(tokens_by_address'[TokenAddress(t)]))
                 = FixedFields(unwrap(tokens_by_address[TokenAddress(t)]))
           /\ UNCHANGED << admin, treasury, base_fee, metadata_fee, paused,
                           token_count >>
      ]_vars

\* the admin burned a holder's unit of token 0; the same holder still has
\* its unit of token 1
C36_Witness ==
    /\ call.op = "admin_burn"
    /\ call.result = "Ok"
    /\ call.args.token_index = 0
    /\ is_some(tokens[1])
    /\ balances[<<1, call.args.holder>>] = Some(1)
    /\ balances[<<0, call.args.holder>>] = Some(0)

\* the step is a configuration operation on an initialized registry
ConfigStep ==
    /\ is_some(admin)
    /\ call'.op \in AdminOps \cup {"initialize"}

\* C37: no configuration operation (initialize after its first success,
\* transfer_admin, pause, unpause, update_fees, batch_update_admin) changes
\* the treasury, a token record, a balance or a burn count; pause and
\* unpause change only the paused flag and transfer_admin only the admin;
\* so admin and treasury stay present in every state after initialization.
C37_ConfigFrame ==
    [][ /\ ConfigStep
           => UNCHANGED << treasury, tokens, tokens_by_address, balances,
                           burn_counts >>
        /\ (ConfigStep /\ call'.op \in {"pause", "unpause"})
           => UNCHANGED << admin, treasury, base_fee, metadata_fee,
                           token_count, tokens, tokens_by_address, balances,
                           burn_counts >>
        /\ (ConfigStep /\ call'.op = "transfer_admin")
           => UNCHANGED << treasury, base_fee, metadata_fee, paused,
                           token_count, tokens, tokens_by_address, balances,
                           burn_counts >>
        /\ is_some(admin)
           => is_some(treasury) /\ is_some(admin') /\ is_some(treasury')
      ]_vars

\* the admin was transferred on a registry with a burned token; the treasury
\* is the one given at initialization
C37_Witness ==
    /\ call.op = "transfer_admin"
    /\ call.result = "Ok"
    /\ admin = Some("A2")
    /\ treasury = Some("A1")
    /\ is_some(tokens[0])
    /\ burn_counts[0] = Some(1)
    /\ paused = Some(TRUE)

\* C38: within every operation of the registry the notifications are
\* emitted only after all of its store writes: in the log of a call no
\* store write follows a notification.
C38_WritesBeforeNotifications ==
    call.op # "create_token"
    => \A i \in DOMAIN log : \A j \in DOMAIN log :
          (i < j /\ log[i][1] = "event") => log[j][1] # "set"

SeparateCalls(s, c, bf, mf, p) ==
    LET o1 == IF is_some(bf) \/ is_some(mf)
              THEN update_fees(s, c, bf, mf) ELSE Ok(Begin(s))
        o2 == IF is_none(p) THEN Ok(Begin(o1.s))
              ELSE IF unwrap(p) THEN pause(o1.s, c) ELSE unpause(o1.s, c)
    IN  IF o1.result = "Ok" THEN o2 ELSE o1

\* C40: a successful batch_update_admin(caller, b, m, p) leaves the
\* configuration in exactly the state reached by update_fees(caller, b, m),
\* when b or m is supplied, followed by pause or unpause according to p,
\* when p is supplied; it changes nothing besides base_fee, metadata_fee and
\* paused.
C40_BatchUpdateAsSeparateCalls ==
    [][ (call'.op = "batch_update_admin" /\ call'.result = "Ok")
        => LET sep == SeparateCalls(Store, unwrap(call'.caller),
                                    call'.args.base_fee,
                                    call'.args.metadata_fee,
                                    call'.args.paused)
           IN  /\ sep.result = "Ok"
               /\ sep.s = Store'
               /\ UNCHANGED << admin, treasury, token_count, tokens,
                               tokens_by_address, balances, burn_counts >>
      ]_vars

\* one call set both fees and lifted the pause
C40_Witness ==
    /\ call.op = "batch_update_admin"
    /\ call.result = "Ok"
    /\ call.args.base_fee = Some(MaxFee)
    /\ call.args.metadata_fee = Some(0)
    /\ call.args.paused = Some(FALSE)
    /\ base_fee = Some(MaxFee)
    /\ metadata_fee = Some(0)
    /\ paused = Some(FALSE)

====
